---- MODULE Spec2Model ----
(***************************************************************************)
(* The article CRUD routes (routes/articles.js) over the Article model     *)
(* (models/articles.js).  The table of stored articles is the shared       *)
(* state; every route handler is an action.  A handler that awaits two     *)
(* persistence calls (update, delete) is split at the await between them,  *)
(* where other requests may run.                                           *)
(***************************************************************************)
EXTENDS Integers, Sequences, FiniteSets, Bags, TLC

\* Largest primary key a run assigns, latest instant of the clock (the first
\* is 0), and the number of update/delete requests that may be suspended
\* between their two awaits.
MaxId == 1
MaxClock == 1
MaxInFlight == 2

VARIABLES
    articles,   \* the rows of the Articles table; a NULL column is an absent field
    seq,        \* the table's AUTOINCREMENT counter: the largest id ever inserted
    clock,      \* the persistence layer's "now"
    pending,    \* update/delete requests suspended after a successful findByPk
    last        \* the request that has just completed, with all it produced

vars == <<articles, seq, clock, pending, last>>

----------------------------------------------------------------------------
\* Request inputs

\* Form bodies (req.body).  A title is a sequence of characters.
Bodies ==
    { [title |-> <<"A">>, author |-> "B", body |-> "C"],
      [title |-> <<"B">>, author |-> "B", body |-> "C"],
      [title |-> <<>>, author |-> "B", body |-> "C"],
      [title |-> <<" ">>, author |-> "B", body |-> "C"],
      [author |-> "B", body |-> "C"],
      [title |-> <<"A">>, author |-> "B", body |-> "C", id |-> 1],
      [title |-> <<"A">>, author |-> "B", body |-> "C", createdAt |-> 0, updatedAt |-> 0] }

\* Bodies of the edit form: a new title, an empty and a blank one, none at
\* all, and one that also carries the primary key and the timestamps.
EditBodies ==
    { [title |-> <<"B">>, author |-> "B", body |-> "C"],
      [title |-> <<>>, author |-> "B", body |-> "C"],
      [title |-> <<" ">>, author |-> "B", body |-> "C"],
      [author |-> "B", body |-> "C"],
      [title |-> <<"A">>, author |-> "B", body |-> "C",
       id |-> 1, createdAt |-> 0, updatedAt |-> 0] }

\* Values of the :id path parameter; MaxId + 1 is never assigned.
Params == 1..(MaxId + 1)

----------------------------------------------------------------------------
\* The Article model

\* The columns: the three initialised attributes, plus the primary key and
\* the timestamps the ORM adds.
rawAttributes == {"id", "title", "author", "body", "createdAt", "updatedAt"}

Whitespace == {" ", "\t", "\r", "\n"}

\* A validator that only asks for some character, whitespace included.
notEmptyUntrimmed(str) == Len(str) > 0

\* validate: { notEmpty }: a string passes unless it is empty or all whitespace.
notEmpty(str) == \E i \in 1..Len(str) : str[i] \notin Whitespace

\* A model without the validate property: every value passes.
validateSkipped(values) == <<>>

\* Validation of the values about to be written.  The only validator is
\* title's notEmpty, and it runs on a value that is present: nothing makes
\* the attribute mandatory.
validate(values) ==
    IF "title" \in DOMAIN values /\ ~notEmpty(values.title)
    THEN <<[message |-> "\"Title\" is required"]>>
    ELSE <<>>

\* Article.build(req.body): an unsaved instance holding the body's values
\* for the model's attributes.
build(b) == [k \in (DOMAIN b) \cap rawAttributes |-> b[k]]

\* Article.create(req.body): build, validate, INSERT.  The instance takes id
\* and createdAt from the body when it carries them; updatedAt is always now.
create(b, fault) ==
    LET values == build(b)
        errors == validate(values)
        id == IF "id" \in DOMAIN values THEN values.id ELSE seq + 1
        row == [k \in (DOMAIN values) \cup {"id", "createdAt", "updatedAt"} |->
                  CASE k = "id" -> id
                    [] k = "createdAt" ->
                         IF "createdAt" \in DOMAIN values THEN values.createdAt ELSE clock
                    [] k = "updatedAt" -> clock
                    [] OTHER -> values[k]]
    IN  IF errors # <<>>
        THEN [error |-> "SequelizeValidationError", errors |-> errors]
        ELSE IF fault THEN [error |-> "SequelizeConnectionError"]
        ELSE IF \E r \in articles : r.id = id
        THEN [error |-> "SequelizeUniqueConstraintError"]
        ELSE [error |-> "", row |-> row]

\* Article.findByPk(req.params.id): the rows with that primary key.
findByPk(id) == {r \in articles : r.id = id}

\* Article.findAll({order: [["createdAt", "DESC"]]}): every row, newest
\* first; rows created at the same time come in any order.
findAll ==
    {s \in [1..Cardinality(articles) -> articles] :
        /\ \A i, j \in DOMAIN s : i # j => s[i] # s[j]
        /\ \A i, j \in DOMAIN s : i < j => s[i].createdAt >= s[j].createdAt}

\* article.update(req.body): set() takes the body's title, author and body
\* (an existing instance refuses its primary key and its timestamps), the
\* values set are validated, and UPDATE ... WHERE id writes them with a
\* fresh updatedAt.
settable == {"title", "author", "body"}

update(id, b, fault) ==
    LET values == [k \in (DOMAIN b) \cap settable |-> b[k]]
        errors == validate(values)
        write(r) == [k \in (DOMAIN r) \cup DOMAIN values |->
                       IF k \in DOMAIN values THEN values[k]
                       ELSE IF k = "updatedAt" THEN clock ELSE r[k]]
    IN  IF errors # <<>>
        THEN [error |-> "SequelizeValidationError", errors |-> errors]
        ELSE IF fault THEN [error |-> "SequelizeConnectionError"]
        ELSE [error |-> "",
              rows |-> {IF r.id = id THEN write(r) ELSE r : r \in articles}]

\* article.destroy(): DELETE ... WHERE id.
destroy(id, fault) ==
    IF fault THEN [error |-> "SequelizeConnectionError"]
    ELSE [error |-> "", rows |-> {r \in articles : r.id # id}]

----------------------------------------------------------------------------
\* Responses

render(view, locals) == [type |-> "render", view |-> view, locals |-> locals]
redirect(path) == [type |-> "redirect", path |-> path]
sendStatus(code) == [type |-> "status", code |-> code]
next(error) == [type |-> "next", error |-> error]

\* What a route callback did: the responses it produced and the error it
\* threw ("" when it returned).
returned(out) == [out |-> out, thrown |-> ""]
threw(error) == [out |-> <<>>, thrown |-> error]

\* A wrapper whose catch block also answers 500 itself before forwarding.
asyncHandlerSends500(cb) ==
    IF cb.thrown = "" THEN cb.out
    ELSE cb.out \o <<sendStatus(500), next(cb.thrown)>>

\* asyncHandler: await the callback; a thrown error goes to next(error).
asyncHandler(cb) ==
    IF cb.thrown = "" THEN cb.out ELSE Append(cb.out, next(cb.thrown))

----------------------------------------------------------------------------
\* The route callbacks, as functions of what their persistence calls gave

ConnectionError == "SequelizeConnectionError"

\* The instance a successful findByPk resolved to.
Found(found) == CHOOSE r \in found : TRUE

\* GET /
listRoute(rows, fault) ==
    IF fault THEN threw(ConnectionError)
    ELSE returned(<<render("articles/index", [articles |-> rows, title |-> "Sequelize-It!"])>>)

\* GET /new
newRoute ==
    returned(<<render("articles/new", [article |-> [k \in {} |-> 0], title |-> "New Article"])>>)

\* POST /: redirect to the new article; on a validation error render the
\* form again with a built instance and the messages; rethrow anything else.
createRoute(b, res) ==
    IF res.error = ""
    THEN returned(<<redirect(<<"/articles/", res.row.id>>)>>)
    ELSE IF res.error = "SequelizeValidationError"
    THEN returned(<<render("articles/new",
                           [article |-> build(b), errors |-> res.errors, title |-> "New Article"])>>)
    ELSE threw(res.error)

\* GET /:id/edit and GET /:id/delete: render the form for the article found,
\* 404 when there is none.
formRoute(view, title, found, fault) ==
    IF fault THEN threw(ConnectionError)
    ELSE IF found # {}
    THEN returned(<<render(view, [article |-> Found(found), title |-> title])>>)
    ELSE returned(<<sendStatus(404)>>)

\* GET /:id: render the article found under its own title (none when the
\* title column is NULL), 404 when there is none.
showLocals(article) ==
    IF "title" \in DOMAIN article
    THEN [article |-> article, title |-> article.title]
    ELSE [article |-> article]

\* The route without the if (article) test: reading the title of a missing
\* article throws.
showRouteUnchecked(found, fault) ==
    IF fault THEN threw(ConnectionError)
    ELSE IF found # {}
    THEN returned(<<render("articles/show", showLocals(Found(found)))>>)
    ELSE threw("TypeError")

showRoute(found, fault) ==
    IF fault THEN threw(ConnectionError)
    ELSE IF found # {}
    THEN returned(<<render("articles/show", showLocals(Found(found)))>>)
    ELSE returned(<<sendStatus(404)>>)

\* POST /:id/edit and POST /:id/delete up to the first await's result, when
\* findByPk failed or found nothing.
missingRoute(fault) ==
    IF fault THEN threw(ConnectionError) ELSE returned(<<sendStatus(404)>>)

\* POST /:id/edit after article.update: redirect to the article, or throw
\* what update threw (a validation error included).
updateRoute(id, res) ==
    IF res.error = "" THEN returned(<<redirect(<<"/articles/", id>>)>>)
    ELSE threw(res.error)

\* POST /:id/delete after article.destroy.
deleteRoute(res) ==
    IF res.error = "" THEN returned(<<redirect(<<"/articles">>)>>)
    ELSE threw(res.error)

----------------------------------------------------------------------------
\* The state machine

\* No response is being delivered.
None == [kind |-> "none", calls |-> <<>>, out |-> <<>>]
Idle == last.kind = "none"

Init ==
    /\ articles = {}
    /\ seq = 0
    /\ clock = 0
    /\ pending = EmptyBag
    /\ last = None

\* The response of the completed request has gone out; its req and res are
\* dropped.  Nothing reads them, so letting this happen before the next
\* handler step loses no behaviour of the table.
Finish ==
    /\ ~Idle
    /\ last' = None
    /\ UNCHANGED <<articles, seq, clock, pending>>

Tick ==
    /\ Idle
    /\ clock < MaxClock
    /\ clock' = clock + 1
    /\ UNCHANGED <<articles, seq, pending, last>>

List ==
    /\ Idle
    /\ \E fault \in BOOLEAN, rows \in findAll :
        /\ last' = [kind |-> "list", calls |-> <<"findAll">>,
                    out |-> asyncHandler(listRoute(rows, fault))]
        /\ UNCHANGED <<articles, seq, clock, pending>>

New ==
    /\ Idle
    /\ last' = [kind |-> "new", calls |-> <<>>, out |-> newRoute.out]
    /\ UNCHANGED <<articles, seq, clock, pending>>

Create ==
    /\ Idle
    /\ \E b \in Bodies, fault \in BOOLEAN :
        LET res == create(b, fault) IN
        /\ res.error = "" => res.row.id <= MaxId
        /\ IF res.error = ""
           THEN /\ articles' = articles \cup {res.row}
                /\ seq' = IF res.row.id > seq THEN res.row.id ELSE seq
           ELSE UNCHANGED <<articles, seq>>
        /\ last' = [kind |-> "create", body |-> b, calls |-> <<"create">>,
                    out |-> asyncHandler(createRoute(b, res))]
        /\ UNCHANGED <<clock, pending>>

EditForm ==
    /\ Idle
    /\ \E id \in Params, fault \in BOOLEAN :
        /\ last' = [kind |-> "editForm", id |-> id, calls |-> <<"findByPk">>,
                    out |-> asyncHandler(formRoute("articles/edit", "Edit Article",
                                                   findByPk(id), fault))]
        /\ UNCHANGED <<articles, seq, clock, pending>>

Show ==
    /\ Idle
    /\ \E id \in Params, fault \in BOOLEAN :
        /\ last' = [kind |-> "show", id |-> id, calls |-> <<"findByPk">>,
                    out |-> asyncHandler(showRoute(findByPk(id), fault))]
        /\ UNCHANGED <<articles, seq, clock, pending>>

DeleteForm ==
    /\ Idle
    /\ \E id \in Params, fault \in BOOLEAN :
        /\ last' = [kind |-> "deleteForm", id |-> id, calls |-> <<"findByPk">>,
                    out |-> asyncHandler(formRoute("articles/delete", "Delete Article",
                                                   findByPk(id), fault))]
        /\ UNCHANGED <<articles, seq, clock, pending>>

\* POST /:id/edit, to the await of findByPk: an article found suspends the
\* request before article.update; otherwise the request ends here.
UpdateFind ==
    /\ Idle
    /\ \E id \in Params, b \in EditBodies, fault \in BOOLEAN :
        LET found == findByPk(id) IN
        IF ~fault /\ found # {}
        THEN /\ BagCardinality(pending) < MaxInFlight
             /\ pending' = pending (+) SetToBag({[kind |-> "update", id |-> Found(found).id,
                                                  body |-> b]})
             /\ UNCHANGED <<articles, seq, clock, last>>
        ELSE /\ last' = [kind |-> "update", id |-> id, body |-> b, calls |-> <<"findByPk">>,
                         out |-> asyncHandler(missingRoute(fault))]
             /\ UNCHANGED <<articles, seq, clock, pending>>

\* A handler that calls article.update a second time when the first call
\* lost its connection.
UpdateWriteRetried ==
    /\ Idle
    /\ \E p \in BagToSet(pending), fault \in BOOLEAN :
        /\ p.kind = "update"
        /\ LET res == update(p.id, p.body, FALSE) IN
           /\ articles' = IF res.error = "" THEN res.rows ELSE articles
           /\ last' = [kind |-> "update", id |-> p.id, body |-> p.body,
                       calls |-> IF fault THEN <<"findByPk", "update", "update">>
                                 ELSE <<"findByPk", "update">>,
                       out |-> asyncHandler(updateRoute(p.id, res))]
        /\ pending' = pending (-) SetToBag({p})
        /\ UNCHANGED <<seq, clock>>

\* POST /:id/edit, from article.update to the response.
UpdateWrite ==
    /\ Idle
    /\ \E p \in BagToSet(pending), fault \in BOOLEAN :
        /\ p.kind = "update"
        /\ LET res == update(p.id, p.body, fault) IN
           /\ articles' = IF res.error = "" THEN res.rows ELSE articles
           /\ last' = [kind |-> "update", id |-> p.id, body |-> p.body,
                       calls |-> <<"findByPk", "update">>,
                       out |-> asyncHandler(updateRoute(p.id, res))]
        /\ pending' = pending (-) SetToBag({p})
        /\ UNCHANGED <<seq, clock>>

\* POST /:id/delete, to the await of findByPk.
DeleteFind ==
    /\ Idle
    /\ \E id \in Params, fault \in BOOLEAN :
        LET found == findByPk(id) IN
        IF ~fault /\ found # {}
        THEN /\ BagCardinality(pending) < MaxInFlight
             /\ pending' = pending (+) SetToBag({[kind |-> "delete", id |-> Found(found).id]})
             /\ UNCHANGED <<articles, seq, clock, last>>
        ELSE /\ last' = [kind |-> "delete", id |-> id, calls |-> <<"findByPk">>,
                         out |-> asyncHandler(missingRoute(fault))]
             /\ UNCHANGED <<articles, seq, clock, pending>>

\* POST /:id/delete, from article.destroy to the response.
DeleteDestroy ==
    /\ Idle
    /\ \E p \in BagToSet(pending), fault \in BOOLEAN :
        /\ p.kind = "delete"
        /\ LET res == destroy(p.id, fault) IN
           /\ articles' = IF res.error = "" THEN res.rows ELSE articles
           /\ last' = [kind |-> "delete", id |-> p.id, calls |-> <<"findByPk", "destroy">>,
                       out |-> asyncHandler(deleteRoute(res))]
        /\ pending' = pending (-) SetToBag({p})
        /\ UNCHANGED <<seq, clock>>

Next ==
    \/ Finish
    \/ Tick
    \/ List
    \/ New
    \/ Create
    \/ EditForm
    \/ Show
    \/ DeleteForm
    \/ UpdateFind
    \/ UpdateWrite
    \/ DeleteFind
    \/ DeleteDestroy

Spec == Init /\ [][Next]_vars

----------------------------------------------------------------------------
\* Properties

\* The submitted titles that are empty or whitespace-only.
BlankTitles == {<<>>, <<" ">>}
BlankTitle(b) == "title" \in DOMAIN b /\ b.title \in BlankTitles
GoodTitle(b) == "title" \in DOMAIN b /\ b.title \notin BlankTitles

ByIdKinds == {"show", "editForm", "update", "deleteForm", "delete"}

\* The completed request produced exactly this kind of outcome and no other.
Only(type) == Len(last.out) = 1 /\ last.out[1].type = type

\* A persistence call of the completed request failed for lack of a connection.
Faulted == Only("next") /\ last.out[1].error = ConnectionError

\* The completed request is an update or delete that found its article and
\* went on to the write.
Wrote == last.kind \in {"update", "delete"} /\ Len(last.calls) = 2

\* C1: an update whose title is empty or whitespace-only, on an article that
\* was found, renders the edit form again with the attempted values and at
\* least one message, and forwards nothing to next(error).
C1_UpdateBlankTitleRendersEditForm ==
    (last.kind = "update" /\ Wrote /\ BlankTitle(last.body)) =>
        /\ Only("render")
        /\ last.out[1].view = "articles/edit"
        /\ last.out[1].locals.article.title = last.body.title
        /\ last.out[1].locals.errors # <<>>

\* C2: a show, edit-form, update, delete-form or delete request whose
\* findByPk finds no row answers 404 and nothing else, makes no persistence
\* call after the lookup, and leaves the table as it was.
C2_NotFoundEndsTheRequest ==
    [][(/\ Idle /\ ~Idle'
        /\ last'.kind \in ByIdKinds
        /\ pending' = pending
        /\ findByPk(last'.id) = {}
        /\ ~Faulted')
       => (/\ Len(last'.out) = 1
           /\ last'.out[1].type = "status"
           /\ last'.out[1].code = 404
           /\ last'.calls = <<"findByPk">>
           /\ articles' = articles)]_vars

\* An update request on an id whose row was destroyed has answered 404.
C2_Witness ==
    /\ last.kind = "update"
    /\ last.id \in 1..seq
    /\ findByPk(last.id) = {}
    /\ last.calls = <<"findByPk">>
    /\ Only("status")

\* C3: a create request whose title is empty or whitespace-only renders the
\* creation form with an unsaved instance carrying the submitted author and
\* body and with a non-empty errors list; it neither redirects nor forwards.
C3_CreateBlankTitleRendersNewForm ==
    (last.kind = "create" /\ BlankTitle(last.body)) =>
        /\ Only("render")
        /\ last.out[1].view = "articles/new"
        /\ "id" \notin DOMAIN last.out[1].locals.article
        /\ last.out[1].locals.article.author = last.body.author
        /\ last.out[1].locals.article.body = last.body.body
        /\ Len(last.out[1].locals.errors) >= 1

\* A create request with a whitespace-only title has rendered the form.
C3_Witness ==
    /\ last.kind = "create"
    /\ BlankTitle(last.body)
    /\ last.body.title = <<" ">>
    /\ Only("render")

\* C4: the step that completes a create or update request with an empty or
\* whitespace-only title leaves every stored row as it was.
C4_RejectedWriteLeavesTable ==
    [][(/\ Idle /\ ~Idle'
        /\ last'.kind \in {"create", "update"}
        /\ BlankTitle(last'.body))
       => articles' = articles]_vars

\* An update with a blank title reached article.update on a stored article.
C4_Witness ==
    /\ last.kind = "update"
    /\ Wrote
    /\ BlankTitle(last.body)
    /\ findByPk(last.id) # {}

\* C5: stored articles have pairwise distinct ids and each a title that is
\* present and non-empty.
C5_StoredTitlesPresent ==
    /\ \A r1, r2 \in articles : r1.id = r2.id => r1 = r2
    /\ \A r \in articles : "title" \in DOMAIN r /\ r.title \notin BlankTitles

\* C6: a create request with a non-empty title (whose INSERT is not cut off
\* by a lost connection) redirects to the detail path of the stored
\* article's id, and showing that id renders the submitted title, author and
\* body.
C6_CreateRedirectsToShownArticle ==
    (last.kind = "create" /\ GoodTitle(last.body) /\ ~Faulted) =>
        /\ Only("redirect")
        /\ last.out[1].path[1] = "/articles/"
        /\ LET shown == asyncHandler(showRoute(findByPk(last.out[1].path[2]), FALSE)) IN
           /\ Len(shown) = 1
           /\ shown[1].type = "render"
           /\ shown[1].view = "articles/show"
           /\ shown[1].locals.article.title = last.body.title
           /\ shown[1].locals.article.author = last.body.author
           /\ shown[1].locals.article.body = last.body.body

\* C7: an id that was assigned and whose row is gone stays without a row, so
\* that every later lookup of it finds nothing.  (Ids are assigned without
\* gaps here, so the ids up to seq that have no row are the destroyed ones.)
C7_DestroyedIdStaysGone ==
    [][\A i \in 1..seq :
          findByPk(i) = {} => \A r \in articles' : r.id # i]_vars

\* C8: a create request with a non-empty title (connection kept) stores its
\* article, and every listing then has it before each row created earlier.
C8_CreateSucceedsAndListsFirst ==
    (last.kind = "create" /\ GoodTitle(last.body) /\ ~Faulted) =>
        /\ Only("redirect")
        /\ \A rows \in findAll :
              \A i, j \in DOMAIN rows :
                 (rows[i].id = last.out[1].path[2]
                    /\ rows[j].createdAt < rows[i].createdAt) => i < j

\* C9: a create stores the next id of the sequence and the current instant
\* as createdAt and updatedAt, whatever the body carries; an update leaves
\* the id and createdAt of every stored row.
C9_OnlyFormFieldsStored ==
    [][(/\ Idle /\ ~Idle' /\ articles' # articles
        /\ last'.kind \in {"create", "update"})
       => IF last'.kind = "create"
          THEN \A r \in articles' \ articles :
                  r.id = seq + 1 /\ r.createdAt = clock /\ r.updatedAt = clock
          ELSE \A r \in articles : \E r2 \in articles' :
                  r2.id = r.id /\ r2.createdAt = r.createdAt]_vars

\* C10: a completed request has produced exactly one outcome: a render, a
\* redirect, a 404 status, or one next(error).
C10_ExactlyOneOutcome ==
    ~Idle =>
        /\ Len(last.out) = 1
        /\ last.out[1].type \in {"render", "redirect", "status", "next"}
        /\ last.out[1].type = "status" => last.out[1].code = 404

\* A create whose INSERT failed on the primary key, which is no validation
\* failure, has been forwarded once and answered by nothing else.
C10_Witness ==
    /\ last.kind = "create"
    /\ Only("next")
    /\ last.out[1].error = "SequelizeUniqueConstraintError"

----------------------------------------------------------------------------
\* Article.shortDescription

\* The length from which a body is cut, and the longest body tried.
ShortLength == 200
MaxBodyLen == 202

\* Body texts of every length up to MaxBodyLen, in two spellings whose
\* characters change with the position; the second has full stops in it.
Texts ==
    {[i \in 1..n |-> IF p = 1
                     THEN (IF i % 2 = 0 THEN "a" ELSE "b")
                     ELSE (IF i % 3 = 0 THEN "." ELSE IF i % 3 = 1 THEN "c" ELSE " ")] :
        n \in 0..MaxBodyLen, p \in 1..2}

\* A method that cuts from ShortLength characters on, not from one more.
shortDescriptionFrom200(article) ==
    IF Len(article.body) >= ShortLength
    THEN SubSeq(article.body, 1, ShortLength) \o <<".", ".", ".">>
    ELSE article.body

\* shortDescription(): the body when it has at most 200 characters, else
\* substring(0, 200) + '...'.
shortDescription(article) ==
    IF Len(article.body) > ShortLength
    THEN SubSeq(article.body, 1, ShortLength) \o <<".", ".", ".">>
    ELSE article.body

\* One stored article with some body text; nothing has been computed.
InitShort ==
    /\ \E text \in Texts :
          articles = {[id |-> 1, title |-> <<"A">>, author |-> "B", body |-> text,
                       createdAt |-> 0, updatedAt |-> 0]}
    /\ seq = 1
    /\ clock = 0
    /\ pending = EmptyBag
    /\ last = None

\* The listing view asks an article for its short description.
ShortDescription ==
    /\ Idle
    /\ \E article \in articles :
          last' = [kind |-> "shortDescription", id |-> article.id, calls |-> <<>>,
                   out |-> <<>>, value |-> shortDescription(article)]
    /\ UNCHANGED <<articles, seq, clock, pending>>

NextShort == ShortDescription

SpecShort == InitShort /\ [][NextShort]_vars

\* C11: shortDescription returns the body unchanged when it has at most 200
\* characters, and its first 200 characters followed by '...' when it has
\* 201 or more.
C11_ShortDescription ==
    last.kind = "shortDescription" =>
        \A article \in articles :
            LET text == article.body
                n == Len(text)
                value == last.value
            IN  IF n <= 200
                THEN Len(value) = n /\ \A i \in 1..n : value[i] = text[i]
                ELSE /\ Len(value) = 203
                     /\ \A i \in 1..200 : value[i] = text[i]
                     /\ \A i \in 201..203 : value[i] = "."

\* A body of 201 characters has been cut to 200 and the ellipsis.
C11_Witness ==
    /\ last.kind = "shortDescription"
    /\ \A article \in articles : Len(article.body) = 201
    /\ Len(last.value) = 203

----------------------------------------------------------------------------
\* Persistence calls per request

\* C12, as stated: a request that rendered or redirected made at most one
\* persistence call before, and made no call twice.
C12_AtMostOneCall ==
    (~Idle /\ (Only("render") \/ Only("redirect"))) =>
        /\ Len(last.calls) <= 1
        /\ \A i, j \in DOMAIN last.calls : last.calls[i] = last.calls[j] => i = j

\* C12, amended: a completed request made no persistence call twice; an
\* update or delete request made findByPk and then at most its one update
\* or destroy; every other request made at most one call.
C12_OneLookupThenOneWrite ==
    ~Idle =>
        /\ \A i, j \in DOMAIN last.calls : last.calls[i] = last.calls[j] => i = j
        /\ IF last.kind \in {"update", "delete"}
           THEN /\ Len(last.calls) \in {1, 2}
                /\ last.calls[1] = "findByPk"
                /\ Len(last.calls) = 2 =>
                      last.calls[2] = (IF last.kind = "update" THEN "update" ELSE "destroy")
           ELSE Len(last.calls) <= 1

\* A delete request found its article, destroyed it and redirected: two
\* persistence calls.
C12_Witness ==
    /\ last.kind = "delete"
    /\ Only("redirect")
    /\ last.calls = <<"findByPk", "destroy">>

====
